---- MODULE Spec2Model ----
(***************************************************************************)
(* Model of the Ready Tech troubleshooting knowledge base                  *)
(* (src/models_new.py, src/app_new.py, src/config.py).                     *)
(*                                                                         *)
(* The state is the persisted store (the SQLAlchemy tables), the database  *)
(* dialect the application was configured with, and the record of the last *)
(* helper call (its name, its argument and its outcome: a returned value   *)
(* or a raised exception).                                                 *)
(***************************************************************************)
EXTENDS Integers, Sequences, FiniteSets, TLC

VARIABLES store, dialect, call

vars == <<store, dialect, call>>

(***************************************************************************)
(* Bounds of the model.                                                    *)
(***************************************************************************)
\* largest number of nodes of an enumerated step document
MaxNodes == 2
\* largest integer used as a solution reference / Solution primary key
MaxSolId == 2

(***************************************************************************)
(* JSON values found in a node's "solution" field, after json.loads.       *)
(* A value is [t |-> python type, v |-> numeric value]; Python's bool is a *)
(* subclass of int, True == 1 and False == 0, so a bool carries v too.     *)
(***************************************************************************)
IntVals == 0..MaxSolId

JInt(n) == [t |-> "int", v |-> n]

JBool(b) == [t |-> "bool", v |-> IF b THEN 1 ELSE 0]

JOther(k) == [t |-> k, v |-> 0]

\* the key "solution" is not in the node
Missing == [t |-> "missing", v |-> 0]

\* JSON kinds that are neither integer nor boolean
OtherKinds == {"str", "float", "null", "list", "dict"}

SolVals == {JInt(n) : n \in IntVals} \cup {JBool(b) : b \in BOOLEAN}
             \cup {JOther(k) : k \in OtherKinds}

\* node content is a mapping, as the data model of the step document has it;
\* of its entries only "solution" is read by the helpers
Nodes == [solution : SolVals \cup {Missing}]

\* step documents: the nodes in key insertion order (keys are unique)
Docs == UNION {[1..n -> Nodes] : n \in 0..MaxNodes}

(***************************************************************************)
(* The text stored in TroubleshootingStep.steps.                           *)
(*   k = "invalid" : not JSON at all                                       *)
(*   k = "list", "str", "num", "null" : well-formed JSON, not a mapping    *)
(*   k = "object"  : a JSON object, the step document                      *)
(***************************************************************************)
NonMappingKinds == {"list", "str", "num", "null"}

Text(k, nodes) == [k |-> k, nodes |-> nodes]

MalformedTexts == {Text(k, <<>>) : k \in NonMappingKinds \cup {"invalid"}}

DocTexts == {Text("object", d) : d \in Docs}

(***************************************************************************)
(* Outcomes of a call.                                                     *)
(***************************************************************************)
Return(v) == [st |-> "return", val |-> v]

Raise(e) == [st |-> "raise", val |-> [error |-> e]]

\* Python's None
None == [none |-> TRUE]

\* isinstance(x, int): true of int and of its subclass bool
isinstance_int(x) == x.t \in {"int", "bool"}

\* truthiness of a value that passed isinstance(x, int)
truthy(x) == x.v # 0

\* json.loads(self.steps)
get_steps(row) ==
  IF row.steps.k = "invalid" THEN Raise("JSONDecodeError")
  ELSE Return(row.steps)

(***************************************************************************)
(* Rows and their to_dict().                                               *)
(***************************************************************************)
\* a string is a sequence of characters; a nullable column is <<>> (NULL) or <<s>>
SolutionRow(i) == [id |-> i, title |-> <<"F", "a", "n">>, description |-> <<"b", "e", "l", "t">>]

Solution_to_dict(s) == [id |-> s.id, title |-> s.title, description |-> s.description]

IssueRow(i) ==
  [id |-> i, model_id |-> 1, title |-> <<"f", "a", "n">>, description |-> << <<"A", "l", "a", "r", "m">> >>]

CommonIssue_to_dict(c) ==
  [id |-> c.id, model_id |-> c.model_id, title |-> c.title, description |-> c.description]

StepRow(i, issue, text) == [id |-> i, issue_id |-> issue, steps |-> text]

(***************************************************************************)
(* Queries.                                                                *)
(***************************************************************************)
\* TroubleshootingStep.query.filter_by(issue_id=issue_id).first(): the first
\* matching row of the table, or None (an empty sequence here)
steps_first(st, issue_id) ==
  LET idx == {i \in 1..Len(st.steps_rows) : st.steps_rows[i].issue_id = issue_id}
  IN  IF idx = {} THEN <<>>
      ELSE <<st.steps_rows[CHOOSE i \in idx : \A j \in idx : i <= j]>>

\* CommonIssue.query.get(issue_id)
issue_get(st, issue_id) == {c \in st.issues : c.id = issue_id}

\* Solution.query.get(ident). ident is what the extraction loop kept: an int
\* or a bool. A bool parameter is bound as an integer by SQLite and as a
\* boolean by PostgreSQL, which has no integer = boolean operator.
solution_get(st, d, ident) ==
  IF ident.t = "bool" /\ d = "postgresql" THEN Raise("ProgrammingError")
  ELSE Return({s \in st.solutions : s.id = ident.v})

(***************************************************************************)
(* get_troubleshooting_steps(issue_id)                                     *)
(***************************************************************************)
\* variant: an empty parsed document is taken for a missing one ("if not steps")
get_troubleshooting_steps_empty_is_absent(st, issue_id) ==
  LET steps_data == steps_first(st, issue_id)
      issue == issue_get(st, issue_id)
  IN  IF steps_data = <<>> THEN Return(None)
      ELSE IF issue = {} THEN Return(None)
      ELSE LET parsed == get_steps(steps_data[1])
           IN  IF parsed.st = "raise" THEN parsed
               ELSE IF parsed.val.nodes = <<>> THEN Return(None)
               ELSE Return([none |-> FALSE,
                            issue |-> CommonIssue_to_dict(CHOOSE c \in issue : TRUE),
                            steps |-> parsed.val])

get_troubleshooting_steps(st, issue_id) ==
  LET steps_data == steps_first(st, issue_id)
      issue == issue_get(st, issue_id)
  IN  IF steps_data = <<>> THEN Return(None)
      ELSE IF issue = {} THEN Return(None)
      ELSE LET parsed == get_steps(steps_data[1])
           IN  IF parsed.st = "raise" THEN parsed
               ELSE Return([none |-> FALSE,
                            issue |-> CommonIssue_to_dict(CHOOSE c \in issue : TRUE),
                            steps |-> parsed.val])

(***************************************************************************)
(* get_solutions(issue_id)                                                 *)
(***************************************************************************)
\* variant: the membership test is left out, every reference is kept
py_in_never(x, ids) == FALSE

\* x in solution_ids, by Python equality (True == 1)
py_in(x, ids) == \E k \in 1..Len(ids) : ids[k].v = x.v

\* one iteration of "for node_key, node in steps.items()"
collect_step(node, solution_ids) ==
  IF node.solution.t # "missing"
  THEN LET solution_id == IF isinstance_int(node.solution) THEN <<node.solution>> ELSE <<>>
       IN  IF solution_id # <<>> /\ truthy(solution_id[1]) /\ ~py_in(solution_id[1], solution_ids)
           THEN Append(solution_ids, solution_id[1])
           ELSE solution_ids
  ELSE solution_ids

RECURSIVE collect_ids(_, _, _)
collect_ids(nodes, i, solution_ids) ==
  IF i > Len(nodes) THEN solution_ids
  ELSE collect_ids(nodes, i + 1, collect_step(nodes[i], solution_ids))

\* "for solution_id in solution_ids": the lookups, in order; the first lookup
\* that raises ends the call
RECURSIVE resolve(_, _, _, _, _)
resolve(st, d, solution_ids, i, solutions) ==
  IF i > Len(solution_ids) THEN Return([solutions |-> solutions])
  ELSE LET got == solution_get(st, d, solution_ids[i])
       IN  IF got.st = "raise" THEN got
           ELSE IF got.val # {}
                THEN resolve(st, d, solution_ids, i + 1,
                             Append(solutions, Solution_to_dict(CHOOSE s \in got.val : TRUE)))
                ELSE resolve(st, d, solution_ids, i + 1, solutions)

\* variant: a missing document answers None, as get_troubleshooting_steps does
get_solutions_absent_is_none(st, d, issue_id) ==
  LET steps_data == steps_first(st, issue_id)
  IN  IF steps_data = <<>> THEN Return(None)
      ELSE LET parsed == get_steps(steps_data[1])
           IN  IF parsed.st = "raise" THEN parsed
               ELSE IF parsed.val.k # "object" THEN Raise("AttributeError")
               ELSE resolve(st, d, collect_ids(parsed.val.nodes, 1, <<>>), 1, <<>>)

get_solutions(st, d, issue_id) ==
  LET steps_data == steps_first(st, issue_id)
  IN  IF steps_data = <<>> THEN Return([solutions |-> <<>>])
      ELSE LET parsed == get_steps(steps_data[1])
           IN  IF parsed.st = "raise" THEN parsed
               ELSE IF parsed.val.k # "object" THEN Raise("AttributeError")
               ELSE resolve(st, d, collect_ids(parsed.val.nodes, 1, <<>>), 1, <<>>)

(***************************************************************************)
(* The directory: equipment, specifications, reference materials and the   *)
(* module_compatibility association table.                                 *)
(***************************************************************************)
EquipmentModel_to_dict(e) ==
  [id |-> e.id, name |-> e.name, category |-> e.category,
   model_number |-> e.model_number, description |-> e.description,
   ordering_info |-> e.ordering_info]

EquipmentSpec_to_dict(x) == [id |-> x.id, model_id |-> x.model_id, name |-> x.name, value |-> x.value]

ReferenceMaterial_to_dict(m) ==
  [id |-> m.id, category |-> m.category, title |-> m.title, description |-> m.description]

\* the rows of a table keyed by id, in primary-key order
RECURSIVE by_id(_)
by_id(rows) ==
  IF rows = {} THEN <<>>
  ELSE LET r == CHOOSE x \in rows : \A y \in rows : x.id <= y.id
       IN  <<r>> \o by_id(rows \ {r})

\* EquipmentModel.query.get(ident): the rows with that primary key
equipment_get(st, ident) == SelectSeq(st.equipment, LAMBDA e : e.id = ident)

lower(c) == CASE c = "A" -> "a" [] c = "B" -> "b" [] c = "F" -> "f" [] OTHER -> c

\* column.ilike('%' + q + '%') for a q without LIKE wildcards: q occurs in the
\* column, letter case ignored; NULL matches nothing
ilike(column, q) ==
  /\ column # <<>>
  /\ LET text == column[1]
     IN  \E i \in 0..(Len(text) - Len(q)) :
           \A k \in 1..Len(q) : lower(text[i + k]) = lower(q[k])

get_equipment_models(st) ==
  LET models == st.equipment
  IN  Return([i \in 1..Len(models) |-> EquipmentModel_to_dict(models[i])])

get_equipment_details(st, model_id) ==
  LET model == equipment_get(st, model_id)
      specs == SelectSeq(st.specs, LAMBDA x : x.model_id = model_id)
  IN  IF model = <<>> THEN Return(None)
      ELSE Return(EquipmentModel_to_dict(model[1]) @@
                  [specifications |-> [i \in 1..Len(specs) |-> EquipmentSpec_to_dict(specs[i])]])

get_common_issues(st, model_id) ==
  LET issues == SelectSeq(by_id(st.issues), LAMBDA c : c.model_id = model_id)
  IN  Return([i \in 1..Len(issues) |-> CommonIssue_to_dict(issues[i])])

search_equipment_by_model_number(st, model_number) ==
  LET models == SelectSeq(st.equipment, LAMBDA e : ilike(e.model_number, model_number))
  IN  Return([i \in 1..Len(models) |-> EquipmentModel_to_dict(models[i])])

\* the issue's dict, with the name of its equipment model when that exists
issue_result(st, c) ==
  LET model == equipment_get(st, c.model_id)
  IN  IF model # <<>> THEN [equipment_model |-> model[1].name] @@ CommonIssue_to_dict(c)
      ELSE CommonIssue_to_dict(c)

search_issues(st, query) ==
  LET issues == SelectSeq(by_id(st.issues),
                          LAMBDA c : ilike(<<c.title>>, query) \/ ilike(c.description, query))
      solutions == SelectSeq(by_id(st.solutions),
                             LAMBDA x : ilike(<<x.title>>, query) \/ ilike(<<x.description>>, query))
  IN  Return([issues |-> [i \in 1..Len(issues) |-> issue_result(st, issues[i])],
              solutions |-> [i \in 1..Len(solutions) |-> Solution_to_dict(solutions[i])]])

\* category is <<>> (None), <<"">> or <<name>>; "if category" is false of the first two
get_reference_materials(st, category) ==
  LET filtered == category # <<>> /\ category[1] # ""
      materials == SelectSeq(st.materials, LAMBDA m : ~filtered \/ m.category = category[1])
  IN  Return([materials |-> [i \in 1..Len(materials) |-> ReferenceMaterial_to_dict(materials[i])],
              categories |-> {st.materials[i].category : i \in 1..Len(st.materials)}])

\* the opposite-side equipment row of an edge, annotated with the edge's fields
annotated(e, comp) ==
  [compatibility_notes |-> comp.compatibility_notes,
   firmware_requirements |-> comp.firmware_requirements,
   max_modules_supported |-> comp.max_modules_supported] @@ EquipmentModel_to_dict(e)

get_compatible_modules(st, controller_id) ==
  LET compatibility_data == SelectSeq(st.compat, LAMBDA c : c.controller_id = controller_id)
      found == SelectSeq(compatibility_data, LAMBDA c : equipment_get(st, c.module_id) # <<>>)
  IN  IF compatibility_data = <<>> THEN Return([compatible_modules |-> <<>>])
      ELSE Return([compatible_modules |->
                     [i \in 1..Len(found) |->
                        annotated(equipment_get(st, found[i].module_id)[1], found[i])]])

\* variant: the edges are matched on the controller side, as in get_compatible_modules
get_module_compatibility_controller_side(st, module_id) ==
  LET compatibility_data == SelectSeq(st.compat, LAMBDA c : c.controller_id = module_id)
      found == SelectSeq(compatibility_data, LAMBDA c : equipment_get(st, c.controller_id) # <<>>)
  IN  IF compatibility_data = <<>> THEN Return([compatible_controllers |-> <<>>])
      ELSE Return([compatible_controllers |->
                     [i \in 1..Len(found) |->
                        annotated(equipment_get(st, found[i].controller_id)[1], found[i])]])

get_module_compatibility(st, module_id) ==
  LET compatibility_data == SelectSeq(st.compat, LAMBDA c : c.module_id = module_id)
      found == SelectSeq(compatibility_data, LAMBDA c : equipment_get(st, c.controller_id) # <<>>)
  IN  IF compatibility_data = <<>> THEN Return([compatible_controllers |-> <<>>])
      ELSE Return([compatible_controllers |->
                     [i \in 1..Len(found) |->
                        annotated(equipment_get(st, found[i].controller_id)[1], found[i])]])

(***************************************************************************)
(* The store and the requests.                                             *)
(***************************************************************************)
\* issue identifiers a request may carry: 1 may own a document, 2 never does
IssueIds == {1, 2}

Dialects == {"postgresql", "sqlite"}

NoCall == [op |-> "none", arg |-> 0, res |-> Return(None)]

EmptyDirectory ==
  [equipment |-> <<>>, specs |-> <<>>, materials |-> <<>>, compat |-> <<>>]

Store(rows, issues, sols) ==
  [steps_rows |-> rows, issues |-> issues, solutions |-> sols] @@ EmptyDirectory

\* the tables after the administrative data load: at most one document, for
\* issue 1; the issue row itself may be missing; any Solution catalog
Stores ==
  {Store(rows, {IssueRow(i) : i \in iss}, {SolutionRow(i) : i \in cat}) :
     rows \in {<<>>} \cup {<<StepRow(1, 1, t)>> : t \in MalformedTexts \cup DocTexts},
     iss \in SUBSET {1},
     cat \in SUBSET IntVals}

Init ==
  /\ store \in Stores
  /\ dialect \in Dialects
  /\ call = NoCall

GetTroubleshootingSteps ==
  \E issue_id \in IssueIds :
    /\ call' = [op |-> "get_troubleshooting_steps", arg |-> issue_id,
                res |-> get_troubleshooting_steps(store, issue_id)]
    /\ UNCHANGED <<store, dialect>>

\* variant: the call repairs the table as it reads, deleting unparseable rows
GetSolutionsRepairs ==
  \E issue_id \in IssueIds :
    /\ call' = [op |-> "get_solutions", arg |-> issue_id,
                res |-> get_solutions(store, dialect, issue_id)]
    /\ store' = [store EXCEPT !.steps_rows = SelectSeq(@, LAMBDA r : r.steps.k # "invalid")]
    /\ UNCHANGED dialect

GetSolutions ==
  \E issue_id \in IssueIds :
    /\ call' = [op |-> "get_solutions", arg |-> issue_id,
                res |-> get_solutions(store, dialect, issue_id)]
    /\ UNCHANGED <<store, dialect>>

Next == GetTroubleshootingSteps \/ GetSolutions

Spec == Init /\ [][Next]_vars

(***************************************************************************)
(* The worked example of the specification: one document of four nodes,    *)
(* step1 without a solution field, step2 and step3 both referencing 7,     *)
(* step4 with the string "unknown"; any catalog over the small ids and 7.  *)
(***************************************************************************)
ExampleDoc ==
  <<[solution |-> Missing], [solution |-> JInt(7)],
    [solution |-> JInt(7)], [solution |-> JOther("str")]>>

ExampleStores ==
  {Store(<<StepRow(1, 1, Text("object", ExampleDoc))>>,
         {IssueRow(i) : i \in iss}, {SolutionRow(i) : i \in cat}) :
     iss \in SUBSET {1},
     cat \in SUBSET (IntVals \cup {7})}

InitExample ==
  /\ store \in ExampleStores
  /\ dialect \in Dialects
  /\ call = NoCall

SpecExample == InitExample /\ [][Next]_vars

(***************************************************************************)
(* Several rows: the one-to-many relation of CommonIssue to                *)
(* TroubleshootingStep. Two rows in table order, each for either issue,    *)
(* each holding a document of at most one node.                            *)
(***************************************************************************)
ShortDocTexts == {Text("object", d) : d \in UNION {[1..n -> Nodes] : n \in 0..1}}

RowStores ==
  {Store(<<StepRow(1, a, t), StepRow(2, b, u)>>,
         {IssueRow(i) : i \in iss}, {SolutionRow(i) : i \in cat}) :
     a \in IssueIds, b \in IssueIds, t \in ShortDocTexts, u \in ShortDocTexts,
     iss \in SUBSET {1},
     cat \in SUBSET IntVals}

InitRows ==
  /\ store \in RowStores
  /\ dialect \in Dialects
  /\ call = NoCall

SpecRows == InitRows /\ [][Next]_vars

(***************************************************************************)
(* The directory: a store with equipment, specifications, reference        *)
(* materials and compatibility edges, and the ten helper operations.       *)
(***************************************************************************)
Controller ==
  [id |-> 1, name |-> "C7000", category |-> "controller",
   model_number |-> << <<"A", "b">> >>, description |-> "d", ordering_info |-> "o"]

Module ==
  [id |-> 2, name |-> "EC-IO", category |-> "module",
   model_number |-> <<>>, description |-> "d", ordering_info |-> "o"]

SpecRow == [id |-> 1, model_id |-> 1, name |-> "voltage", value |-> "24V"]

Material(i, c) == [id |-> i, category |-> c, title |-> "t", description |-> "d"]

\* an edge of module_compatibility; module 3 has no EquipmentModel row
Edge(i, c, m) ==
  [id |-> i, controller_id |-> c, module_id |-> m, compatibility_notes |-> "notes",
   firmware_requirements |-> "fw", max_modules_supported |-> i]

DirectoryStores ==
  {[steps_rows |-> rows,
    issues |-> {IssueRow(i) : i \in iss},
    solutions |-> {SolutionRow(i) : i \in cat},
    equipment |-> eq, specs |-> sp, materials |-> mat, compat |-> cm] :
     rows \in {<<>>, <<StepRow(1, 1, Text("invalid", <<>>))>>,
               <<StepRow(1, 1, Text("object", <<[solution |-> JInt(1)]>>))>>},
     iss \in SUBSET {1},
     cat \in SUBSET {1},
     eq \in {<<>>, <<Controller>>, <<Controller, Module>>},
     sp \in {<<>>, <<SpecRow>>},
     mat \in {<<>>, <<Material(1, "manual")>>, <<Material(1, "manual"), Material(2, "wiring")>>},
     cm \in {<<>>, <<Edge(1, 1, 2)>>, <<Edge(1, 1, 2), Edge(2, 1, 3)>>}}

ModelIds == {1, 2, 3}

Queries == {<<>>, <<"a">>, <<"A", "B">>, <<"x">>}

Categories == {<<>>, <<"">>, <<"manual">>, <<"other">>}

InitDirectory ==
  /\ store \in DirectoryStores
  /\ dialect \in Dialects
  /\ call = NoCall

GetEquipmentModels ==
  /\ call' = [op |-> "get_equipment_models", arg |-> 0, res |-> get_equipment_models(store)]
  /\ UNCHANGED <<store, dialect>>

GetEquipmentDetails ==
  \E model_id \in ModelIds :
    /\ call' = [op |-> "get_equipment_details", arg |-> model_id,
                res |-> get_equipment_details(store, model_id)]
    /\ UNCHANGED <<store, dialect>>

GetCommonIssues ==
  \E model_id \in ModelIds :
    /\ call' = [op |-> "get_common_issues", arg |-> model_id,
                res |-> get_common_issues(store, model_id)]
    /\ UNCHANGED <<store, dialect>>

SearchIssues ==
  \E query \in Queries :
    /\ call' = [op |-> "search_issues", arg |-> query, res |-> search_issues(store, query)]
    /\ UNCHANGED <<store, dialect>>

SearchEquipmentByModelNumber ==
  \E model_number \in Queries :
    /\ call' = [op |-> "search_equipment_by_model_number", arg |-> model_number,
                res |-> search_equipment_by_model_number(store, model_number)]
    /\ UNCHANGED <<store, dialect>>

GetReferenceMaterials ==
  \E category \in Categories :
    /\ call' = [op |-> "get_reference_materials", arg |-> category,
                res |-> get_reference_materials(store, category)]
    /\ UNCHANGED <<store, dialect>>

GetCompatibleModules ==
  \E controller_id \in ModelIds :
    /\ call' = [op |-> "get_compatible_modules", arg |-> controller_id,
                res |-> get_compatible_modules(store, controller_id)]
    /\ UNCHANGED <<store, dialect>>

GetModuleCompatibility ==
  \E module_id \in ModelIds :
    /\ call' = [op |-> "get_module_compatibility", arg |-> module_id,
                res |-> get_module_compatibility(store, module_id)]
    /\ UNCHANGED <<store, dialect>>

NextDirectory ==
  \/ GetTroubleshootingSteps
  \/ GetSolutions
  \/ GetEquipmentModels
  \/ GetEquipmentDetails
  \/ GetCommonIssues
  \/ SearchIssues
  \/ SearchEquipmentByModelNumber
  \/ GetReferenceMaterials
  \/ GetCompatibleModules
  \/ GetModuleCompatibility

SpecDirectory == InitDirectory /\ [][NextDirectory]_vars

(***************************************************************************)
(* The HTTP boundary: the JSON data handlers of app_new.py. A request      *)
(* carries its path parameter or its query string and meets a database     *)
(* that is reachable or not.                                               *)
(***************************************************************************)
\* jsonify(value): a 200 response whose body is the value as JSON; None is
\* serialised as null, a dict as an object, a list as an array
jsonify(v) == [status |-> 200, json |-> v]

\* "return jsonify(...), code": the tuple form sets the status
with_status(response, code) == [response EXCEPT !.status = code]

\* the session the helpers query through: on an unreachable database the
\* first query of a helper raises
session(up, outcome) == IF up THEN outcome ELSE Raise("OperationalError")

\* try: value = helper(...); return jsonify(value)
\* except Exception as e: return jsonify({"error": str(e)}), 500
handler(name, outcome) ==
  [invoked |-> <<name>>,
   res |-> IF outcome.st = "raise"
           THEN with_status(jsonify([error |-> outcome.val.error]), 500)
           ELSE jsonify(outcome.val)]

\* the early return of the two search handlers, before the try block
no_query == [invoked |-> <<>>,
             res |-> with_status(jsonify([error |-> "No search query provided"]), 400)]

\* request.args.get('query', ''): the parameter is <<>> (not sent) or <<text>>
args_get_query(args) == IF args.query = <<>> THEN <<>> ELSE args.query[1]

api_equipment_models(st, up) ==
  handler("get_equipment_models", session(up, get_equipment_models(st)))

api_equipment_details(st, up, model_id) ==
  handler("get_equipment_details", session(up, get_equipment_details(st, model_id)))

api_common_issues(st, up, model_id) ==
  handler("get_common_issues", session(up, get_common_issues(st, model_id)))

\* variant: an absent document is answered with 404
api_troubleshooting_steps_404(st, up, issue_id) ==
  LET steps == session(up, get_troubleshooting_steps(st, issue_id))
  IN  IF steps = Return(None)
      THEN [invoked |-> <<"get_troubleshooting_steps">>,
            res |-> with_status(jsonify([error |-> "Not found"]), 404)]
      ELSE handler("get_troubleshooting_steps", steps)

api_troubleshooting_steps(st, up, issue_id) ==
  handler("get_troubleshooting_steps", session(up, get_troubleshooting_steps(st, issue_id)))

\* variant: a failure of the extractor is answered with the empty list
api_solutions_swallows(st, d, up, issue_id) ==
  LET solutions_data == session(up, get_solutions(st, d, issue_id))
  IN  IF solutions_data.st = "raise"
      THEN handler("get_solutions", Return([solutions |-> <<>>]))
      ELSE handler("get_solutions", solutions_data)

api_solutions(st, d, up, issue_id) ==
  handler("get_solutions", session(up, get_solutions(st, d, issue_id)))

api_search_equipment_by_model_number(st, up, args) ==
  LET model_number == args_get_query(args)
  IN  IF model_number = <<>> THEN no_query
      ELSE handler("search_equipment_by_model_number",
                   session(up, search_equipment_by_model_number(st, model_number)))

\* variant: the query is handed to the directory unchecked
api_search_unguarded(st, up, args) ==
  handler("search_issues", session(up, search_issues(st, args_get_query(args))))

api_search(st, up, args) ==
  LET query == args_get_query(args)
  IN  IF query = <<>> THEN no_query
      ELSE handler("search_issues", session(up, search_issues(st, query)))

\* request.args.get('category', None): <<>> is None, as get_reference_materials takes it
api_reference(st, up, args) ==
  LET category == args.category
  IN  handler("get_reference_materials", session(up, get_reference_materials(st, category)))

api_compatible_modules(st, up, controller_id) ==
  handler("get_compatible_modules", session(up, get_compatible_modules(st, controller_id)))

api_module_compatibility(st, up, module_id) ==
  handler("get_module_compatibility", session(up, get_module_compatibility(st, module_id)))

\* the tables behind the handlers: the directory stores, and stores whose one
\* step row holds a malformed payload or a short document
ApiStores ==
  DirectoryStores \cup
  {Store(<<StepRow(1, 1, t)>>, {IssueRow(i) : i \in iss}, {SolutionRow(i) : i \in cat}) :
     t \in MalformedTexts \cup ShortDocTexts,
     iss \in SUBSET {1},
     cat \in SUBSET IntVals}

QueryArgs == {[query |-> q] : q \in {<<>>} \cup {<<x>> : x \in Queries}}

CategoryArgs == {[category |-> c] : c \in Categories}

InitApi ==
  /\ store \in ApiStores
  /\ dialect \in Dialects
  /\ call = NoCall

\* one HTTP request served: the helpers it invoked and its response
Served(op, arg, up, served) ==
  /\ call' = [op |-> op, arg |-> arg, up |-> up, invoked |-> served.invoked, res |-> served.res]
  /\ UNCHANGED <<store, dialect>>

ApiEquipmentModels ==
  \E up \in BOOLEAN : Served("api_equipment_models", 0, up, api_equipment_models(store, up))

ApiEquipmentDetails ==
  \E up \in BOOLEAN, model_id \in ModelIds :
    Served("api_equipment_details", model_id, up, api_equipment_details(store, up, model_id))

ApiCommonIssues ==
  \E up \in BOOLEAN, model_id \in ModelIds :
    Served("api_common_issues", model_id, up, api_common_issues(store, up, model_id))

ApiTroubleshootingSteps ==
  \E up \in BOOLEAN, issue_id \in IssueIds :
    Served("api_troubleshooting_steps", issue_id, up,
           api_troubleshooting_steps(store, up, issue_id))

ApiSolutions ==
  \E up \in BOOLEAN, issue_id \in IssueIds :
    Served("api_solutions", issue_id, up, api_solutions(store, dialect, up, issue_id))

ApiSearchEquipmentByModelNumber ==
  \E up \in BOOLEAN, args \in QueryArgs :
    Served("api_search_equipment_by_model_number", args, up,
           api_search_equipment_by_model_number(store, up, args))

ApiSearch ==
  \E up \in BOOLEAN, args \in QueryArgs :
    Served("api_search", args, up, api_search(store, up, args))

ApiReference ==
  \E up \in BOOLEAN, args \in CategoryArgs :
    Served("api_reference", args, up, api_reference(store, up, args))

ApiCompatibleModules ==
  \E up \in BOOLEAN, controller_id \in ModelIds :
    Served("api_compatible_modules", controller_id, up,
           api_compatible_modules(store, up, controller_id))

ApiModuleCompatibility ==
  \E up \in BOOLEAN, module_id \in ModelIds :
    Served("api_module_compatibility", module_id, up,
           api_module_compatibility(store, up, module_id))

NextApi ==
  \/ ApiEquipmentModels
  \/ ApiEquipmentDetails
  \/ ApiCommonIssues
  \/ ApiTroubleshootingSteps
  \/ ApiSolutions
  \/ ApiSearchEquipmentByModelNumber
  \/ ApiSearch
  \/ ApiReference
  \/ ApiCompatibleModules
  \/ ApiModuleCompatibility

SpecApi == InitApi /\ [][NextApi]_vars

(***************************************************************************)
(* The Q&A endpoint: api_qa_answer. A POST request carries a body and      *)
(* meets an environment (OPENAI_API_KEY, the client library, the provider).*)
(* The handler runs up to the provider call, waits for the provider, and   *)
(* answers from the provider's outcome.                                    *)
(***************************************************************************)
\* a JSON value of a body field: a string with its text, or something else
Str(s) == [t |-> "str", s |-> s]

NotStr(t) == [t |-> t, s |-> ""]

\* the body of the POST request. k says what was sent: nothing at all under a
\* JSON content type, text that is not JSON, a body under another content
\* type, or a JSON value; an object carries its fields, each <<>> (not given)
\* or <<value>>, and hints for manufacturer / model_series
Body(k, problem, question, hints) ==
  [k |-> k, problem |-> problem, question |-> question, hints |-> hints]

Unparsed == {"empty", "malformed", "not_json"}

Falsy == {"null", "false", "zero", "empty_str", "empty_list", "empty_object"}

\* truthy values that are not objects; the _with_problem ones contain the
\* text 'problem' (as an element of the list, as a part of the string)
Scalars == {"number", "true", "list", "list_with_problem", "str", "str_with_problem"}

\* manufacturer / model_series: not given; Stulz with a series name; Stulz
\* with a series that is a number
Hints == {"none", "series", "bad_series"}

Bodies ==
  {Body(k, <<>>, <<>>, "none") : k \in Unparsed \cup Falsy \cup Scalars} \cup
  {Body("object", p, q, h) :
     p \in {<<>>, <<Str("P")>>, <<Str("")>>, <<NotStr("num")>>},
     q \in {<<>>, <<Str("Q")>>},
     h \in Hints}

\* what the request meets: the Flask release (get_json on a body that is not
\* JSON returns None before 2.1 and raises 415 since), the environment
\* variable (unset, empty or set) and whether OpenAI(api_key=...) constructs
Requests ==
  [body : Bodies, silent_mimetype : BOOLEAN,
   api_key : {<<>>, <<"">>, <<"sk">>}, client_ok : BOOLEAN]

\* the JSON bodies the handler answers with
qa_error(message) == [status |-> "error", message |-> message]

qa_success(answer, model_used) ==
  [status |-> "success", answer |-> answer, citations |-> <<>>, model_used |-> model_used]

fallback_response == "HVAC Troubleshooting Guide"

\* request.get_json()
get_json(req) ==
  CASE req.body.k \in {"empty", "malformed"} -> Raise("BadRequest")
    [] req.body.k = "not_json" ->
         IF req.silent_mimetype THEN Return(None) ELSE Raise("UnsupportedMediaType")
    [] OTHER -> Return(req.body)

\* "not data"
not_data(data) == data = None \/ data.k \in Falsy

\* "key in data": a field of an object, an element of a list, a part of a
\* string; a number or a boolean is not iterable
key_in(data, present) ==
  CASE data.k = "object" -> Return(present)
    [] data.k \in {"list_with_problem", "str_with_problem"} -> Return(TRUE)
    [] data.k \in {"list", "str"} -> Return(FALSE)
    [] OTHER -> Raise("TypeError")

\* data.get('problem', data.get('question', ''))
get_problem(data) ==
  IF data.k # "object" THEN Raise("AttributeError")
  ELSE IF data.problem # <<>> THEN Return(data.problem[1])
  ELSE IF data.question # <<>> THEN Return(data.question[1])
  ELSE Return(Str(""))

\* problem[:50] in the first print
truncated(problem) == IF problem.t = "str" THEN Return(problem) ELSE Raise("TypeError")

\* building system_message: '"CyberAir" in model_series' on a number raises
system_message(hints) ==
  IF hints = "bad_series" THEN Raise("TypeError") ELSE Return(<<"system", hints>>)

\* nothing has been sent back yet
NoResponse == [status |-> 0, json |-> None]

\* the handler has answered
Answered(status, json) ==
  [pc |-> "done", provider_calls |-> 0, sent |-> <<>>, timeout |-> <<>>,
   outcome |-> <<>>, res |-> with_status(jsonify(json), status)]

\* except Exception as e, around the whole handler
unexpected(e) == Answered(500, qa_error(<<"Failed to get answer: ", e>>))

\* client.chat.completions.create(model, messages, temperature, max_tokens):
\* the request goes out, with no timeout argument, and the handler waits
create(system, problem) ==
  [pc |-> "waiting", provider_calls |-> 1, sent |-> <<system, problem>>, timeout |-> <<>>,
   outcome |-> <<>>, res |-> NoResponse]

\* the handler from the request to its first answer or to the provider call
api_qa_answer(req) ==
  LET data == get_json(req)
  IN  IF data.st = "raise" THEN unexpected(data.val.error)
      ELSE IF not_data(data.val) THEN Answered(400, qa_error(<<"No data provided">>))
      ELSE LET d == data.val
               has_problem == key_in(d, d.problem # <<>>)
               has_question == key_in(d, d.question # <<>>)
           IN  IF has_problem.st = "raise" THEN unexpected(has_problem.val.error)
               ELSE IF ~has_problem.val /\ ~has_question.val
                    THEN Answered(400, qa_error(<<"No problem provided">>))
               ELSE LET problem == get_problem(d)
                    IN  IF problem.st = "raise" THEN unexpected(problem.val.error)
                        ELSE IF truncated(problem.val).st = "raise" THEN unexpected("TypeError")
                        ELSE IF system_message(d.hints).st = "raise" THEN unexpected("TypeError")
                        ELSE IF req.api_key = <<>> \/ req.api_key = <<"">>
                             THEN Answered(500, qa_error(<<"OpenAI API key not configured">>))
                        ELSE IF ~req.client_ok
                             THEN Answered(500, qa_error(<<"Failed to initialize OpenAI client: ",
                                                           "TypeError">>))
                        ELSE create(system_message(d.hints).val, problem.val)

\* what the provider call comes back with: a completion whose message content
\* is text or None, or an error with its message
Completions == {[kind |-> "completion", content |-> c, text |-> <<>>] : c \in {<<>>, <<"A">>}}

ApiErrors ==
  {[kind |-> "error", content |-> <<>>, text |-> t] :
     t \in {<<"Error code: 429", "insufficient_quota">>,
            <<"You ", "exceeded your current quota", ", please check">>,
            <<"Error code: 429", "rate_limit_exceeded">>,
            <<"Request timed out.">>,
            <<"Connection error.">>}}

\* "needle in str(api_error)"
contains(text, needle) == \E i \in 1..Len(text) : text[i] = needle

\* variant: every failure of the call is taken for a quota failure
is_quota_error_always(text) == TRUE

is_quota_error(text) ==
  contains(text, "insufficient_quota") \/ contains(text, "exceeded your current quota")

\* except Exception as api_error, around the call and the reading of the answer
on_api_error(text) ==
  IF is_quota_error(text)
  THEN jsonify(qa_success(fallback_response, "Fallback Guide"))
  ELSE with_status(jsonify(qa_error(<<"OpenAI API request failed: ">> \o text)), 500)

\* after the call returned: answer = response.choices[0].message.content;
\* answer[:50] raises on None, inside the same try
on_response(content) ==
  IF content = <<>> THEN on_api_error(<<"'NoneType' object is not subscriptable">>)
  ELSE jsonify(qa_success(content[1], "OpenAI GPT-4o"))

NoStore == Store(<<>>, {}, {})

InitQA ==
  /\ store = NoStore
  /\ dialect \in Dialects
  /\ call = NoCall

\* a request arrives and is handled up to its answer or to the provider call
QaRequest ==
  /\ call.op = "api_qa_answer" => call.pc = "done"
  /\ \E req \in Requests :
       call' = [op |-> "api_qa_answer", arg |-> req] @@ api_qa_answer(req)
  /\ UNCHANGED <<store, dialect>>

\* the provider call returns a completion
ProviderAnswers ==
  /\ call.op = "api_qa_answer" /\ call.pc = "waiting"
  /\ \E c \in Completions :
       call' = [call EXCEPT !.pc = "done", !.outcome = <<c>>, !.res = on_response(c.content)]
  /\ UNCHANGED <<store, dialect>>

\* the provider call raises
ProviderFails ==
  /\ call.op = "api_qa_answer" /\ call.pc = "waiting"
  /\ \E e \in ApiErrors :
       call' = [call EXCEPT !.pc = "done", !.outcome = <<e>>, !.res = on_api_error(e.text)]
  /\ UNCHANGED <<store, dialect>>

NextQA == QaRequest \/ ProviderAnswers \/ ProviderFails

SpecQA == InitQA /\ [][NextQA]_vars

(***************************************************************************)
(* Vocabulary of the claims.                                               *)
(***************************************************************************)
\* the last call was get_solutions / get_troubleshooting_steps
SolCall == call.op = "get_solutions"

StepsCall == call.op = "get_troubleshooting_steps"

Returned == call.res.st = "return"

\* a row is stored for the issue
HasRow(i) == \E r \in 1..Len(store.steps_rows) : store.steps_rows[r].issue_id = i

\* index of the row the helpers read for the issue
RowOf(i) ==
  CHOOSE r \in 1..Len(store.steps_rows) :
    /\ store.steps_rows[r].issue_id = i
    /\ \A q \in 1..(r - 1) : store.steps_rows[q].issue_id # i

TextOf(i) == store.steps_rows[RowOf(i)].steps

\* a step document (a mapping) is stored for the issue
HasDoc(i) == HasRow(i) /\ TextOf(i).k = "object"

NodesOf(i) == TextOf(i).nodes

HasIssue(i) == \E c \in store.issues : c.id = i

\* a JSON integer: booleans, strings, floats, null, lists and objects are not
IsIntRef(node) == node.solution.t = "int"

HasField(node) == node.solution.t # "missing"

\* the integers referenced by the nodes
IntRefs(nodes) == {nodes[n].solution.v : n \in {m \in 1..Len(nodes) : IsIntRef(nodes[m])}}

\* position of the first node referencing integer v; past the end when none does
FirstRef(nodes, v) ==
  LET at == {n \in 1..Len(nodes) : IsIntRef(nodes[n]) /\ nodes[n].solution.v = v}
  IN  IF at = {} THEN Len(nodes) + 1 ELSE CHOOSE n \in at : \A m \in at : n <= m

CatalogIds == {s.id : s \in store.solutions}

\* the returned list and how often an id occurs in it
List == call.res.val.solutions

Occurrences(v) == Cardinality({p \in 1..Len(List) : List[p].id = v})

\* the store with the solution field of node n of the issue's document removed
WithoutField(i, n) ==
  [store EXCEPT !.steps_rows[RowOf(i)].steps.nodes[n] = [solution |-> Missing]]

(***************************************************************************)
(* C1. The list returned by get_solutions holds no two entries with the    *)
(* same id, and a Solution of the catalog that two distinct nodes          *)
(* reference by the same integer appears in it exactly once.               *)
(***************************************************************************)
C1_NoDuplicateSolutions ==
  (SolCall /\ HasDoc(call.arg)) =>
    /\ Returned => \A p, q \in 1..Len(List) : List[p].id = List[q].id => p = q
    /\ \A m, n \in 1..Len(NodesOf(call.arg)) :
         LET nodes == NodesOf(call.arg)
         IN  (/\ m # n
              /\ IsIntRef(nodes[m]) /\ IsIntRef(nodes[n])
              /\ nodes[m].solution.v = nodes[n].solution.v
              /\ nodes[m].solution.v \in CatalogIds)
             => Returned /\ Occurrences(nodes[m].solution.v) = 1

(***************************************************************************)
(* C2. The returned solutions are in first-seen order: s precedes t in the *)
(* list exactly when the first node referencing s.id comes before the      *)
(* first node referencing t.id.                                            *)
(***************************************************************************)
C2_FirstSeenOrder ==
  (SolCall /\ HasDoc(call.arg) /\ Returned) =>
    \A p, q \in 1..Len(List) :
      (p < q) <=> (FirstRef(NodesOf(call.arg), List[p].id)
                     < FirstRef(NodesOf(call.arg), List[q].id))

(***************************************************************************)
(* C3. A node whose solution field is present but not an integer (string,  *)
(* boolean, float, null, list, object) raises no error and contributes     *)
(* nothing: the result is the result for the document without that field.  *)
(***************************************************************************)
C3_NonIntegerIsAbsent ==
  (SolCall /\ HasDoc(call.arg)) =>
    \A n \in 1..Len(NodesOf(call.arg)) :
      (HasField(NodesOf(call.arg)[n]) /\ ~IsIntRef(NodesOf(call.arg)[n]))
        => /\ Returned
           /\ call.res = get_solutions(WithoutField(call.arg, n), dialect, call.arg)

(***************************************************************************)
(* C4. When some referenced integer has no record in the catalog,          *)
(* get_solutions raises no error, returns fewer entries than there are     *)
(* distinct integer references, and still returns those that resolve.      *)
(***************************************************************************)
C4_UnresolvedDropped ==
  (/\ SolCall /\ HasDoc(call.arg)
   /\ IntRefs(NodesOf(call.arg)) \ CatalogIds # {})
    => /\ Returned
       /\ Len(List) < Cardinality(IntRefs(NodesOf(call.arg)))
       /\ \A v \in IntRefs(NodesOf(call.arg)) \cap CatalogIds :
            \E p \in 1..Len(List) : List[p] = Solution_to_dict(SolutionRow(v))

(***************************************************************************)
(* C5. Completeness: every integer referenced by some node of the stored   *)
(* document, reachable or not, whose Solution is in the catalog, is in the *)
(* returned list.                                                          *)
(***************************************************************************)
C5_ExtractionComplete ==
  (SolCall /\ HasDoc(call.arg)) =>
    \A v \in IntRefs(NodesOf(call.arg)) \cap CatalogIds :
      /\ Returned
      /\ \E p \in 1..Len(List) : List[p] = Solution_to_dict(SolutionRow(v))

(***************************************************************************)
(* C6. get_solutions returns exactly {"solutions": []} when no step        *)
(* document is stored for the issue, and when the stored document has no   *)
(* node with a solution field.                                             *)
(***************************************************************************)
NoSolutionField(i) ==
  HasDoc(i) /\ \A n \in 1..Len(NodesOf(i)) : ~HasField(NodesOf(i)[n])

Present(i) ==
  Return([none |-> FALSE,
          issue |-> CommonIssue_to_dict(IssueRow(i)),
          steps |-> TextOf(i)])

C7_AbsentIffMissing ==
  StepsCall =>
    IF ~HasRow(call.arg) \/ ~HasIssue(call.arg)
    THEN call.res = Return(None)
    ELSE call.res = Present(call.arg)

(***************************************************************************)
(* C7 (amended). get_troubleshooting_steps returns None, without raising,  *)
(* exactly when no step document is stored or the issue does not exist;    *)
(* otherwise, when the stored text is parseable JSON, it returns {issue,   *)
(* steps: parsed text} (an empty document gives a present result with      *)
(* empty steps), and when the text is not parseable it raises.             *)
(***************************************************************************)
C7_AbsentIffMissingOrRaises ==
  StepsCall =>
    IF ~HasRow(call.arg) \/ ~HasIssue(call.arg)
    THEN call.res = Return(None)
    ELSE IF TextOf(call.arg).k = "invalid"
         THEN call.res.st = "raise"
         ELSE call.res = Present(call.arg) /\ call.res # Return(None)

\* an empty but present document was requested and came back present
C7_Witness ==
  /\ StepsCall /\ HasDoc(call.arg) /\ HasIssue(call.arg)
  /\ NodesOf(call.arg) = <<>>
  /\ call.res = Present(call.arg)

(***************************************************************************)
(* C8. For a stored payload that does not parse to a mapping (unparseable  *)
(* text, or a well-formed list, string, number or null),                   *)
(* get_troubleshooting_steps fails with an error: it returns neither the   *)
(* absent value nor an {issue, steps} result. Stated for an existing       *)
(* issue, where absence of the issue cannot explain the outcome.           *)
(***************************************************************************)
C8_MalformedRaises ==
  (StepsCall /\ HasRow(call.arg) /\ HasIssue(call.arg) /\ TextOf(call.arg).k # "object")
    => call.res.st = "raise"

(***************************************************************************)
(* C9. For the document {step1: {q, next}, step2: {q, solution: 7},        *)
(* step3: {solution: 7}, step4: {solution: "unknown"}} with Solution 7 in  *)
(* the catalog, get_solutions returns exactly one entry, the record of     *)
(* Solution 7.                                                             *)
(***************************************************************************)
ExampleCase ==
  /\ SolCall /\ HasDoc(call.arg)
  /\ NodesOf(call.arg) = ExampleDoc
  /\ 7 \in CatalogIds

C9_WorkedExample ==
  ExampleCase => call.res = Return([solutions |-> <<Solution_to_dict(SolutionRow(7))>>])

\* the example was run against a catalog that also holds other solutions
C9_Witness ==
  /\ ExampleCase /\ CatalogIds # {7}
  /\ Returned /\ Len(List) = 1 /\ List[1].id = 7

(***************************************************************************)
(* C10. No core or directory operation changes the persisted entities:     *)
(* every step of every behaviour leaves the store as it was, whether the   *)
(* call returns a value, returns None or raises.                           *)
(***************************************************************************)
C10_StoreUnchanged == [][store' = store]_vars

\* a call raised on a populated store, and the row it read is still there
C10_Witness ==
  /\ SolCall /\ call.res.st = "raise"
  /\ HasRow(call.arg) /\ TextOf(call.arg).k = "invalid"
  /\ store.equipment # <<>> /\ store.compat # <<>>

(***************************************************************************)
(* C15. Compatibility lookup over the single stored edge row: for every    *)
(* edge (controller c, module m) whose two EquipmentModel rows exist,      *)
(* get_compatible_modules(c) contains m and get_module_compatibility(m)    *)
(* contains c, each annotated with that edge's notes, firmware requirement *)
(* and maximum module count; a lookup returns only opposite-side entities  *)
(* of edges matching the queried side, and an empty list when no edge      *)
(* matches.                                                                *)
(***************************************************************************)
EquipmentIds == {store.equipment[i].id : i \in 1..Len(store.equipment)}

EquipmentRow(ident) ==
  store.equipment[CHOOSE i \in 1..Len(store.equipment) : store.equipment[i].id = ident]

Edges == {store.compat[i] : i \in 1..Len(store.compat)}

\* what a lookup is to report for equipment row e reached over edge x
Entry(e, x) ==
  [id |-> e.id, name |-> e.name, category |-> e.category, model_number |-> e.model_number,
   description |-> e.description, ordering_info |-> e.ordering_info,
   compatibility_notes |-> x.compatibility_notes,
   firmware_requirements |-> x.firmware_requirements,
   max_modules_supported |-> x.max_modules_supported]

Entries(list) == {list[i] : i \in 1..Len(list)}

ModulesOf(c) ==
  {Entry(EquipmentRow(x.module_id), x) :
     x \in {y \in Edges : y.controller_id = c /\ y.module_id \in EquipmentIds}}

ControllersOf(m) ==
  {Entry(EquipmentRow(x.controller_id), x) :
     x \in {y \in Edges : y.module_id = m /\ y.controller_id \in EquipmentIds}}

C15_CompatibilitySymmetric ==
  /\ call.op = "get_compatible_modules" =>
       /\ Returned
       /\ Entries(call.res.val.compatible_modules) = ModulesOf(call.arg)
  /\ call.op = "get_module_compatibility" =>
       /\ Returned
       /\ Entries(call.res.val.compatible_controllers) = ControllersOf(call.arg)

\* the module side of the edge (controller 1, module 2) was queried and
\* answered with controller 1 and the edge's fields
C15_Witness ==
  /\ call.op = "get_module_compatibility" /\ call.arg = 2
  /\ Len(call.res.val.compatible_controllers) = 1
  /\ call.res.val.compatible_controllers[1].id = 1
  /\ call.res.val.compatible_controllers[1].compatibility_notes = "notes"

(***************************************************************************)
(* C16. When the issue identifier resolves to no CommonIssue, even if a    *)
(* step row carries that identifier, get_troubleshooting_steps returns     *)
(* None and get_solutions returns the empty solutions list. Stated for     *)
(* SQLite, which does not enforce the issue_id foreign key, so that such a *)
(* row can be stored, and for rows whose text is a step document.          *)
(***************************************************************************)
C16_MissingIssueNotFound ==
  (dialect = "sqlite" /\ ~HasIssue(call.arg) /\ (HasRow(call.arg) => HasDoc(call.arg))) =>
    /\ StepsCall => call.res = Return(None)
    /\ SolCall => call.res = Return([solutions |-> <<>>])

(***************************************************************************)
(* C18. Every solution returned by get_solutions(issue) is a record of the *)
(* catalog whose id occurs as an integer solution reference in some node   *)
(* of the document that get_troubleshooting_steps returns for the issue.   *)
(***************************************************************************)
C18_ExtractionSound ==
  (SolCall /\ HasDoc(call.arg) /\ Returned) =>
    LET shown == get_troubleshooting_steps(store, call.arg)
    IN  /\ HasIssue(call.arg) => shown.val.steps.nodes = NodesOf(call.arg)
        /\ \A p \in 1..Len(List) :
             /\ List[p].id \in IntRefs(NodesOf(call.arg))
             /\ List[p].id \in CatalogIds

(***************************************************************************)
(* Vocabulary of the claims about the HTTP boundary.                       *)
(***************************************************************************)
ApiOps ==
  {"api_equipment_models", "api_equipment_details", "api_common_issues",
   "api_troubleshooting_steps", "api_solutions", "api_search_equipment_by_model_number",
   "api_search", "api_reference", "api_compatible_modules", "api_module_compatibility"}

SearchOps == {"api_search_equipment_by_model_number", "api_search"}

\* the last request was served by this handler with the database reachable
ServedUp(op) == call.op = op /\ call.up

\* what the operation under the last request's handler does on this store
Underlying ==
  LET a == call.arg
      outcome ==
        CASE call.op = "api_equipment_models" -> get_equipment_models(store)
          [] call.op = "api_equipment_details" -> get_equipment_details(store, a)
          [] call.op = "api_common_issues" -> get_common_issues(store, a)
          [] call.op = "api_troubleshooting_steps" -> get_troubleshooting_steps(store, a)
          [] call.op = "api_solutions" -> get_solutions(store, dialect, a)
          [] call.op = "api_search_equipment_by_model_number" ->
               search_equipment_by_model_number(store, a.query[1])
          [] call.op = "api_search" -> search_issues(store, a.query[1])
          [] call.op = "api_reference" -> get_reference_materials(store, a.category)
          [] call.op = "api_compatible_modules" -> get_compatible_modules(store, a)
          [] call.op = "api_module_compatibility" -> get_module_compatibility(store, a)
  IN  IF call.up THEN outcome ELSE Raise("OperationalError")

\* the last request was a search without a usable query
EmptyQuery == call.op \in SearchOps /\ (call.arg.query = <<>> \/ call.arg.query[1] = <<>>)

\* C12: NotFound is a successful response at the HTTP boundary. With the
\* database reachable, the steps endpoint answers 200 with a null body for an
\* issue without a step row or without an issue row, the details endpoint
\* answers 200 with a null body for an unknown equipment id, and the solutions
\* endpoint answers 200 with an empty solutions list for an issue without a
\* step row.
C12_NotFoundIsSuccess ==
  /\ (ServedUp("api_troubleshooting_steps") /\ (~HasRow(call.arg) \/ ~HasIssue(call.arg)))
       => call.res = [status |-> 200, json |-> None]
  /\ (ServedUp("api_equipment_details") /\ call.arg \notin EquipmentIds)
       => call.res = [status |-> 200, json |-> None]
  /\ (ServedUp("api_solutions") /\ ~HasRow(call.arg))
       => call.res = [status |-> 200, json |-> [solutions |-> <<>>]]

\* a step row exists but its issue row does not, and the steps endpoint has
\* answered 200 null
C12_Witness ==
  /\ ServedUp("api_troubleshooting_steps")
  /\ HasRow(call.arg) /\ ~HasIssue(call.arg)
  /\ call.res.status = 200
  /\ call.res.json = None

\* C17: a payload that does not parse to a mapping is never answered as an
\* empty tree by the solutions path: get_solutions raises on it, and the
\* solutions endpoint answers 500 with an error field.
C17_MalformedFails ==
  (call.op = "api_solutions" /\ HasRow(call.arg) /\ ~HasDoc(call.arg)) =>
    /\ get_solutions(store, dialect, call.arg).st = "raise"
    /\ call.res.status = 500
    /\ call.res.json \in {[error |-> e] :
                            e \in {"JSONDecodeError", "AttributeError", "OperationalError"}}

\* the payload parses to a JSON array and the endpoint has answered 500
C17_Witness ==
  /\ ServedUp("api_solutions")
  /\ HasRow(call.arg) /\ TextOf(call.arg).k = "list"
  /\ call.res = [status |-> 500, json |-> [error |-> "AttributeError"]]

\* C20: no exception escapes a JSON data handler. A search without a query
\* answers 400 and invokes nothing; every other request invokes exactly its
\* operation and answers 500 with the error when the operation raises, 200
\* with the returned value when it returns.
C20_HandlersTotal ==
  call.op \in ApiOps =>
    IF EmptyQuery
    THEN /\ call.res = [status |-> 400, json |-> [error |-> "No search query provided"]]
         /\ call.invoked = <<>>
    ELSE /\ Len(call.invoked) = 1
         /\ Underlying.st = "raise"
              => call.res = [status |-> 500, json |-> [error |-> Underlying.val.error]]
         /\ Underlying.st = "return"
              => call.res.status = 200 /\ call.res.json = Underlying.val

\* a search with a query met an unreachable database and was answered 500
C20_Witness ==
  /\ call.op = "api_search" /\ ~call.up /\ ~EmptyQuery
  /\ call.invoked = <<"search_issues">>
  /\ call.res = [status |-> 500, json |-> [error |-> "OperationalError"]]

(***************************************************************************)
(* Vocabulary of the claims about the Q&A endpoint.                        *)
(***************************************************************************)
QaCall == call.op = "api_qa_answer"

\* the provider call of the last request has come back, with this
ProviderOutcome == call.outcome[1]

QaDone == QaCall /\ call.pc = "done"

AfterProvider == QaDone /\ call.outcome # <<>>

QuotaText(text) ==
  \E i \in 1..Len(text) : text[i] \in {"insufficient_quota", "exceeded your current quota"}

FallbackServed ==
  call.res = [status |-> 200,
              json |-> [status |-> "success", answer |-> fallback_response,
                        citations |-> <<>>, model_used |-> "Fallback Guide"]]

ErrorServed(status) == call.res.status = status /\ call.res.json.status = "error"

\* C13: when the provider call fails with a quota/billing message the answer
\* is status success with the fallback guide; when it fails with any other
\* message the answer is status error with HTTP 500; the fallback is served
\* for nothing but a quota failure of the call.
C13_FallbackOnlyOnQuota ==
  /\ AfterProvider =>
       /\ (ProviderOutcome.kind = "error" /\ QuotaText(ProviderOutcome.text)) => FallbackServed
       /\ (ProviderOutcome.kind = "error" /\ ~QuotaText(ProviderOutcome.text)) => ErrorServed(500)
  /\ (QaCall /\ FallbackServed) =>
       /\ AfterProvider
       /\ ProviderOutcome.kind = "error"
       /\ QuotaText(ProviderOutcome.text)

\* the call failed on an exhausted quota and the fallback guide was served
C13_Witness ==
  /\ AfterProvider
  /\ ProviderOutcome.kind = "error"
  /\ ProviderOutcome.text = <<"Error code: 429", "insufficient_quota">>
  /\ FallbackServed

\* C14: the provider call carries a request timeout, so that a provider that
\* never answers cannot keep an accepted request without a response: whenever
\* the handler waits for the provider, its call has a timeout.
C14_TimeoutApplied == (QaCall /\ call.pc = "waiting") => call.timeout # <<>>

\* the body of the last request
ReqBody == call.arg.body

NoKey == call.arg.api_key = <<>>

\* an object whose fields let the handler reach the API key check
WellFormed ==
  /\ ReqBody.k = "object"
  /\ ReqBody.problem # <<>> \/ ReqBody.question # <<>>
  /\ ReqBody.problem # <<>> => ReqBody.problem[1].t = "str"
  /\ ReqBody.hints # "bad_series"

Rejected(status, message) ==
  /\ call.pc = "done"
  /\ call.provider_calls = 0
  /\ call.res = [status |-> status, json |-> [status |-> "error", message |-> message]]

\* C19: the provider is called at most once per request and only after the
\* checks: a missing or empty JSON body is answered 400 'No data provided', an
\* object with neither 'problem' nor 'question' 400 'No problem provided', an
\* unset API key 500, each without a provider call; when both 'problem' and
\* 'question' are given the text sent is 'problem'.
C19_ChecksBeforeProvider ==
  QaCall =>
    /\ call.provider_calls <= 1
    /\ ReqBody.k \in {"empty", "empty_object", "null"} => Rejected(400, <<"No data provided">>)
    /\ (ReqBody.k = "object" /\ ReqBody.problem = <<>> /\ ReqBody.question = <<>>)
         => Rejected(400, <<"No problem provided">>)
    /\ (WellFormed /\ NoKey) => Rejected(500, <<"OpenAI API key not configured">>)
    /\ call.provider_calls = 1 =>
         /\ WellFormed /\ ~NoKey
         /\ ReqBody.problem # <<>> => call.sent[2] = ReqBody.problem[1]

====
